---- MODULE Spec2Model ----
(***************************************************************************)
(* Shawarma admin dashboard: the Row Source helpers of                     *)
(* admin_neondb_helper.py (menu table CRUD over psycopg2 connections) and  *)
(* the three Streamlit views of app.py (Manage Menu, Dashboard, Sales      *)
(* Forecasting).                                                           *)
(*                                                                         *)
(* Text is modelled as a sequence of one-character strings so that         *)
(* str.strip() and str.title() are computed, not assumed.                  *)
(***************************************************************************)
EXTENDS Integers, Sequences, FiniteSets, TLC

VARIABLES
    menu,       \* the menu table: a set of rows [id, item_name, category, item_price]
    nextId,     \* the next value of the serial primary key of menu
    openConns,  \* connections the most recent operation obtained from
                \* get_connection() and had not closed when it returned or raised
    last,       \* outcome of the most recent operation (what its caller observes)
    forecast,   \* the run of the Sales Forecasting page: input, position, output
    dashboard   \* the run of the Dashboard page: input, selections, output

vars == <<menu, nextId, openConns, last, forecast, dashboard>>
otherVars == <<forecast, dashboard>>

----------------------------------------------------------------------------
(* Bounds *)

MaxId == 2          \* ids handed out by the store: 1..MaxId
MaxRaw == 4         \* rows of the orders table a forecasting run reads
MaxOrders == 2      \* rows of the orders table a dashboard run reads
MaxShared == 3      \* rows of the orders table a run of both pages reads

----------------------------------------------------------------------------
(* Text *)

\* Python None (selectbox over an empty option list): no text equals it
NoneVal == <<"None">>

IsSpace(c) == c = " "

RECURSIVE lstrip(_)
lstrip(s) ==
    IF s = <<>> THEN <<>>
    ELSE IF IsSpace(Head(s)) THEN lstrip(Tail(s)) ELSE s

RECURSIVE rstrip(_)
rstrip(s) ==
    IF s = <<>> THEN <<>>
    ELSE IF IsSpace(s[Len(s)]) THEN rstrip(SubSeq(s, 1, Len(s) - 1)) ELSE s

\* str.strip(): leading and trailing whitespace removed
strip(s) == rstrip(lstrip(s))

Lowers == <<"a", "b", "c", "d", "e", "f", "g", "h", "i", "j", "k", "l", "m",
            "n", "o", "p", "q", "r", "s", "t", "u", "v", "w", "x", "y", "z">>
Uppers == <<"A", "B", "C", "D", "E", "F", "G", "H", "I", "J", "K", "L", "M",
            "N", "O", "P", "Q", "R", "S", "T", "U", "V", "W", "X", "Y", "Z">>

IsLower(c) == \E i \in 1 .. Len(Lowers) : Lowers[i] = c
IsUpper(c) == \E i \in 1 .. Len(Uppers) : Uppers[i] = c
IsAlpha(c) == IsLower(c) \/ IsUpper(c)

upper(c) == IF IsLower(c) THEN Uppers[CHOOSE i \in 1 .. Len(Lowers) : Lowers[i] = c] ELSE c
lower(c) == IF IsUpper(c) THEN Lowers[CHOOSE i \in 1 .. Len(Uppers) : Uppers[i] = c] ELSE c

RECURSIVE TitleFrom(_, _)
TitleFrom(s, afterLetter) ==
    IF s = <<>> THEN <<>>
    ELSE <<IF afterLetter THEN lower(Head(s)) ELSE upper(Head(s))>>
         \o TitleFrom(Tail(s), IsAlpha(Head(s)))

\* str.title(): first letter of every word upper case, the others lower case
title(s) == TitleFrom(s, FALSE)

\* Python truthiness of a str-or-None value
Truthy(s) == s # NoneVal /\ s # <<>>

----------------------------------------------------------------------------
(* Inputs *)

\* (item_name, category, price) as typed by a caller: blank name, empty
\* category, negative price, valid-but-untrimmed with price 0, valid
MenuInputs ==
    { [n |-> <<" ">>,           c |-> <<"c">>,      p |-> 1],
      [n |-> <<"a">>,           c |-> <<>>,         p |-> 1],
      [n |-> <<"a">>,           c |-> <<"c">>,      p |-> -1],
      [n |-> <<" ", "a", " ">>, c |-> <<"c", " ">>, p |-> 0],
      [n |-> <<"a">>,           c |-> <<"c">>,      p |-> 1] }

Ids == 1 .. MaxId
Faults == { "none", "connect", "execute" }

----------------------------------------------------------------------------
(* psycopg2 connection handling *)

\* get_connection(): psycopg2.connect succeeds unless the fault is "connect"
Connects(fault) == fault # "connect"

\* "with get_connection() as connection": psycopg2's connection context
\* manager commits or rolls back on exit and leaves the connection open; no
\* helper calls close().  On a normal return the frame dies, the last
\* reference goes with it and the connection object's finalizer closes the
\* socket.  On a raise out of the with block the exception's traceback keeps
\* the frame, and with it the open connection, alive for the caller.
ConnsAfter(fault) == IF fault = "execute" THEN 1 ELSE 0

StatusOf(fault) == IF fault = "none" THEN "ok" ELSE "PsycopgError"

----------------------------------------------------------------------------
(* Row Source: admin_neondb_helper.py *)

RowIds(m) == { r.id : r \in m }

RECURSIVE SortById(_)
SortById(rows) ==
    IF rows = {} THEN <<>>
    ELSE LET r == CHOOSE x \in rows : \A y \in rows : x.id <= y.id
         IN <<r>> \o SortById(rows \ {r})

\* SELECT id, item_name, category, item_price FROM menu ORDER BY id
listMenu(m) == SortById(m)

\* SELECT DISTINCT category FROM menu
listCategories(m) == { r.category : r \in m }

\* the validation of add_menu_item without its .strip() tests
AddInvalidNoStrip(item_name, category, price) ==
    \/ ~Truthy(item_name)
    \/ ~Truthy(category)
    \/ price < 0

\* the validation of add_menu_item, in the order of the source
AddInvalid(item_name, category, price) ==
    \/ ~Truthy(item_name) \/ strip(item_name) = <<>>
    \/ ~Truthy(category) \/ strip(category) = <<>>
    \/ price < 0

\* the INSERT with the values as typed, not stripped
InsertedMenuRaw(m, id, item_name, category, price) ==
    m \cup { [id |-> id, item_name |-> item_name,
              category |-> category, item_price |-> price] }

\* INSERT INTO menu (item_name, category, item_price) VALUES (%s, %s, %s)
InsertedMenu(m, id, item_name, category, price) ==
    m \cup { [id |-> id, item_name |-> strip(item_name),
              category |-> strip(category), item_price |-> price] }

\* the UPDATE without its WHERE clause
UpdatedMenuAll(m, item_id, item_name, category, price) ==
    { [id |-> r.id, item_name |-> item_name,
       category |-> category, item_price |-> price] : r \in m }

\* UPDATE menu SET item_name = %s, category = %s, item_price = %s WHERE id = %s
UpdatedMenu(m, item_id, item_name, category, price) ==
    { IF r.id = item_id
      THEN [id |-> r.id, item_name |-> item_name,
            category |-> category, item_price |-> price]
      ELSE r : r \in m }

\* a DELETE that takes the rows up to the id
DeletedMenuUpTo(m, item_id) == { r \in m : r.id > item_id }

\* DELETE FROM menu WHERE id = %s
DeletedMenu(m, item_id) == { r \in m : r.id # item_id }

\* what the caller of an operation observes (op .. msgs), and the database
\* fault the run met
Outcome(op, status, id, item_name, category, price, msgs, fault) ==
    [op |-> op, status |-> status, id |-> id, item_name |-> item_name,
     category |-> category, price |-> price, msgs |-> msgs, fault |-> fault]

add_menu_item(item_name, category, price, fault) ==
    IF AddInvalid(item_name, category, price)
    THEN /\ last' = Outcome("add_menu_item", "ValueError", 0,
                            item_name, category, price, {}, "none")
         /\ openConns' = 0
         /\ UNCHANGED <<menu, nextId>>
    ELSE /\ fault = "none" => nextId <= MaxId
         /\ openConns' = ConnsAfter(fault)
         /\ last' = Outcome("add_menu_item", StatusOf(fault), 0,
                            item_name, category, price, {}, fault)
         /\ IF fault = "none"
            THEN /\ menu' = InsertedMenu(menu, nextId, item_name, category, price)
                 /\ nextId' = nextId + 1
            ELSE UNCHANGED <<menu, nextId>>

update_menu_item(item_id, item_name, category, price, fault) ==
    /\ openConns' = ConnsAfter(fault)
    /\ last' = Outcome("update_menu_item", StatusOf(fault), item_id,
                       item_name, category, price, {}, fault)
    /\ nextId' = nextId
    /\ menu' = IF fault = "none"
               THEN UpdatedMenu(menu, item_id, item_name, category, price)
               ELSE menu

delete_menu_item(item_id, fault) ==
    /\ openConns' = ConnsAfter(fault)
    /\ last' = Outcome("delete_menu_item", StatusOf(fault), item_id,
                       <<>>, <<>>, 0, {}, fault)
    /\ nextId' = nextId
    /\ menu' = IF fault = "none" THEN DeletedMenu(menu, item_id) ELSE menu

\* the four read-only operations: the result is a function of the table
\* (listMenu, listCategories); the state keeps the outcome and the connection
ReadOp(op, fault) ==
    /\ openConns' = ConnsAfter(fault)
    /\ last' = Outcome(op, StatusOf(fault), 0, <<>>, <<>>, 0, {}, fault)
    /\ UNCHANGED <<menu, nextId>>

get_all_menu_items(fault) == ReadOp("get_all_menu_items", fault)

fetch_menu(fault) == ReadOp("fetch_menu", fault)

fetch_categories(fault) == ReadOp("fetch_categories", fault)

fetch_order_data(fault) == ReadOp("fetch_order_data", fault)

----------------------------------------------------------------------------
(* Manage Menu page: app.py.  Streamlit runs the page top to bottom on every
   interaction: tab "View & Edit" (fetch_menu, Delete button, edit_form),
   then tab "Add New Item" (fetch_categories, add_form). *)

\* at most one database call of a page run fails: which one, and how
FaultPlans ==
    { [call |-> "none", kind |-> "none"] } \cup
    { [call |-> c, kind |-> k] :
        c \in { "fetch_menu", "mutation", "fetch_categories" },
        k \in { "connect", "execute" } }

FaultAt(call, plan) == IF plan.call = call THEN plan.kind ELSE "none"

\* the add_form checks that precede the call of add_menu_item
AddFormRejects(item_name, price) ==
    IF strip(item_name) = <<>> THEN "Item name is required."
    ELSE IF price <= 0 THEN "Price must be greater than 0."
    ELSE "accepted"

\* st.selectbox("Select Category", categories): one of the options, None if
\* there is none
SelectBox(options) == IF options = {} THEN { NoneVal } ELSE options

\* connections left open by a page run: the handlers drop the exceptions
\* they catch; the exception of fetch_categories is not caught by the page
Lingering(f3) == ConnsAfter(f3)

\* tab "View & Edit Items": fetch_menu, then the pressed button
ViewEditTab(event, selected_id, inp, plan) ==
    LET f1 == FaultAt("fetch_menu", plan)
        f2 == FaultAt("mutation", plan)
    IN  IF f1 # "none"
        THEN [menu |-> menu, msgs |-> {"Failed to load menu data."}]
        ELSE IF event = "delete_button"
        THEN [menu |-> IF f2 = "none" THEN DeletedMenu(menu, selected_id) ELSE menu,
              msgs |-> IF f2 = "none" THEN {"Item deleted successfully."}
                                      ELSE {"Failed to delete item."}]
        ELSE IF event = "edit_form"
        THEN [menu |-> IF f2 = "none"
                       THEN UpdatedMenu(menu, selected_id, inp.n, inp.c, inp.p)
                       ELSE menu,
              msgs |-> IF f2 = "none" THEN {"Item updated successfully."}
                                      ELSE {"Failed to update item."}]
        ELSE [menu |-> menu, msgs |-> {}]

\* tab "Add New Item" after fetch_categories returned: the add_form
AddTab(event, m1, inp, category, plan) ==
    LET f2 == FaultAt("mutation", plan)
        verdict == AddFormRejects(inp.n, inp.p)
    IN  IF event # "add_form"
        THEN [inserts |-> FALSE, msgs |-> {}]
        ELSE IF verdict # "accepted"
        THEN [inserts |-> FALSE, msgs |-> {verdict}]
        ELSE IF AddInvalid(inp.n, category, inp.p)
        THEN [inserts |-> FALSE, msgs |-> {"Failed to add new item."}]
        ELSE IF f2 # "none"
        THEN [inserts |-> FALSE, msgs |-> {"Failed to add new item."}]
        ELSE [inserts |-> TRUE, msgs |-> {"New item added successfully."}]

ManageMenuPage(event, selected_id, inp, plan) ==
    LET t1 == ViewEditTab(event, selected_id, inp, plan)
        f3 == FaultAt("fetch_categories", plan)
    IN  /\ inp.p >= 0
        /\ IF f3 # "none"
           THEN /\ openConns' = Lingering(f3)
                /\ menu' = t1.menu
                /\ nextId' = nextId
                /\ last' = Outcome(event, "uncaught", selected_id, inp.n,
                                   inp.c, inp.p, t1.msgs, plan.kind)
           ELSE \E category \in SelectBox(listCategories(t1.menu)) :
                LET t2 == AddTab(event, t1.menu, inp, category, plan)
                IN  /\ t2.inserts => nextId <= MaxId
                    /\ openConns' = Lingering(f3)
                    /\ menu' = IF t2.inserts
                               THEN InsertedMenu(t1.menu, nextId, inp.n, category, inp.p)
                               ELSE t1.menu
                    /\ nextId' = IF t2.inserts THEN nextId + 1 ELSE nextId
                    /\ last' = Outcome(event, "ok", selected_id, inp.n,
                                       IF event = "add_form" THEN category ELSE inp.c,
                                       inp.p, t1.msgs \cup t2.msgs, plan.kind)

\* the form fields another widget owns keep their defaults
BlankInput == [n |-> <<>>, c |-> <<>>, p |-> 0]

delete_button(selected_id, plan) ==
    ManageMenuPage("delete_button", selected_id, BlankInput, plan)

edit_form(selected_id, inp, plan) ==
    ManageMenuPage("edit_form", selected_id, inp, plan)

add_form(inp, plan) ==
    ManageMenuPage("add_form", 1, inp, plan)

----------------------------------------------------------------------------
(* Order rows as fetch_order_data returns them (orders joined with menu).
   A cell is a record: kind "ts" (a timestamp, v its day number and h its
   hour of the day), "num",
   "text" (a value that neither parses as a timestamp nor as a number) or
   "null".  Of the eleven columns the model keeps the seven the pages read. *)

TsAt(d, h) == [k |-> "ts", v |-> d, h |-> h]
Ts(d) == TsAt(d, 0)
Num(n) == [k |-> "num", v |-> n]
TextCell == [k |-> "text", v |-> 0]
NullCell == [k |-> "null", v |-> 0]

OrderRow(order_id, time_at, item_name, category, item_price, quantity, total_price) ==
    [order_id |-> order_id, time_at |-> time_at, item_name |-> item_name,
     category |-> category, item_price |-> item_price, quantity |-> quantity,
     total_price |-> total_price]

Shawarma == <<"S", "h", "a", "w", "a", "r", "m", "a">>
Fries == <<"F", "r", "i", "e", "s">>
Wraps == <<"W", "r", "a", "p", "s">>
Sides == <<"S", "i", "d", "e", "s">>
SidesTyped == <<" ", "s", "i", "d", "e", "s">>

\* pd.to_datetime("today") as a day number; 2025-01-01 is day 1, 2025-01-02
\* is day 2, and day 9 lies in the future
Today == 5

\* the clock reads the start of that day
Now == Ts(Today)

\* Series.dt.date: the calendar date of a timestamp, its hour dropped
DateOf(cell) == cell.v

\* t1 <= t2 on timestamps
NotAfter(t1, t2) == t1.v < t2.v \/ (t1.v = t2.v /\ t1.h <= t2.h)

RowPool ==
    { OrderRow(1, Ts(1), Shawarma, Wraps, Num(20), Num(1), Num(20)),
      OrderRow(2, Ts(2), Fries, Sides, Num(10), Num(1), Num(10)),
      OrderRow(3, Ts(2), Shawarma, Wraps, Num(20), Num(1), Num(20)),
      OrderRow(4, Ts(1), Fries, Sides, Num(10), Num(2), Num(20)),
      OrderRow(5, Ts(2), Fries, SidesTyped, Num(10), Num(2), Num(20)),
      OrderRow(6, TextCell, Shawarma, Wraps, Num(20), Num(1), Num(20)),
      OrderRow(7, Ts(1), Fries, Sides, Num(10), TextCell, Num(20)),
      OrderRow(8, Ts(9), Shawarma, Wraps, Num(20), Num(1), Num(20)),
      OrderRow(9, Ts(2), Shawarma, Wraps, Num(20), Num(1), NullCell),
      OrderRow(10, TsAt(1, 1), Shawarma, Wraps, Num(20), Num(1), Num(20)) }

RawFrames == UNION { [1 .. n -> RowPool] : n \in 0 .. MaxRaw }

----------------------------------------------------------------------------
(* Data frame operations of the Sales Forecasting page: app.py *)

Rows(df) == { df[i] : i \in 1 .. Len(df) }

\* df.dropna(subset=["time_at", "total_price"])
DropNaTimeTotal(df) ==
    LET Keep(r) == r.time_at.k # "null" /\ r.total_price.k # "null"
    IN  SelectSeq(df, Keep)

\* pd.to_datetime(df["time_at"]) with the default errors="raise"
ToDatetimeRaises(df) == \E r \in Rows(df) : r.time_at.k = "text"

\* pd.to_numeric(..., errors="coerce"): what is no number becomes NaN
ToNumeric(cell) == IF cell.k = "num" THEN cell ELSE NullCell

CoerceNumeric(df) ==
    LET F(r) == [r EXCEPT !.total_price = ToNumeric(r.total_price),
                          !.item_price = ToNumeric(r.item_price),
                          !.quantity = ToNumeric(r.quantity)]
    IN  [ i \in 1 .. Len(df) |-> F(df[i]) ]

\* df.dropna(subset=["total_price", "item_price", "quantity"])
DropNaNumeric(df) ==
    LET Keep(r) == /\ r.total_price.k # "null"
                   /\ r.item_price.k # "null"
                   /\ r.quantity.k # "null"
    IN  SelectSeq(df, Keep)

\* df.drop_duplicates(): the first of equal rows is kept
RECURSIVE DropDuplicatesFrom(_, _)
DropDuplicatesFrom(df, seen) ==
    IF df = <<>> THEN <<>>
    ELSE IF Head(df) \in seen THEN DropDuplicatesFrom(Tail(df), seen)
    ELSE <<Head(df)>> \o DropDuplicatesFrom(Tail(df), seen \cup {Head(df)})

DropDuplicates(df) == DropDuplicatesFrom(df, {})

RECURSIVE Insert(_, _)
Insert(x, s) ==
    IF s = <<>> THEN <<x>>
    ELSE IF x <= Head(s) THEN <<x>> \o s
    ELSE <<Head(s)>> \o Insert(x, Tail(s))

RECURSIVE SortedTotals(_)
SortedTotals(df) ==
    IF df = <<>> THEN <<>>
    ELSE Insert(Head(df).total_price.v, SortedTotals(Tail(df)))

\* 100 * Series.quantile(pct / 100) of a non-empty column, by pandas' default
\* linear interpolation between the two closest ranks
Quantile100(sorted, pct) ==
    LET h == (Len(sorted) - 1) * pct
        lo == h \div 100
        fr == h % 100
    IN  IF fr = 0 THEN 100 * sorted[lo + 1]
        ELSE 100 * sorted[lo + 1] + fr * (sorted[lo + 2] - sorted[lo + 1])

\* rows with q_low <= total_price <= q_high; the quantile of an empty column
\* is NaN and no comparison with NaN holds
TrimOutliers(df) ==
    IF df = <<>> THEN <<>>
    ELSE LET s == SortedTotals(df)
             q_low == Quantile100(s, 1)
             q_high == Quantile100(s, 99)
             Keep(r) == /\ 100 * r.total_price.v >= q_low
                        /\ 100 * r.total_price.v <= q_high
         IN  SelectSeq(df, Keep)

\* df[df["time_at"] <= today]
DropFuture(df) ==
    LET Keep(r) == NotAfter(r.time_at, Now)
    IN  SelectSeq(df, Keep)

\* df["category"].str.strip().str.title()
NormalizeCategory(df) ==
    LET F(r) == [r EXCEPT !.category = title(strip(r.category))]
    IN  [ i \in 1 .. Len(df) |-> F(df[i]) ]

\* the cleaning of lines 316-343, after to_datetime has returned
Clean(df) ==
    NormalizeCategory(DropFuture(TrimOutliers(DropDuplicates(
        DropNaNumeric(CoerceNumeric(DropNaTimeTotal(df)))))))

\* Series.unique(): the values in order of first appearance
RECURSIVE UniqueFrom(_, _)
UniqueFrom(s, seen) ==
    IF s = <<>> THEN <<>>
    ELSE IF Head(s) \in seen THEN UniqueFrom(Tail(s), seen)
    ELSE <<Head(s)>> \o UniqueFrom(Tail(s), seen \cup {Head(s)})

Categories(df) ==
    LET F(r) == r.category
    IN  UniqueFrom([ i \in 1 .. Len(df) |-> F(df[i]) ], {})

RECURSIVE SumRows(_, _)
SumRows(df, idx) ==
    IF idx = {} THEN 0
    ELSE LET i == CHOOSE x \in idx : TRUE
         IN  df[i].total_price.v + SumRows(df, idx \ {i})

RECURSIVE SortedDays(_)
SortedDays(days) ==
    IF days = {} THEN <<>>
    ELSE LET d == CHOOSE x \in days : \A y \in days : x <= y
         IN  <<d>> \o SortedDays(days \ {d})

\* the grouping without the selection of the category's rows: each date sums
\* the rows of every category
DailySeriesAnyCategory(df, category) ==
    LET df_category == { i \in 1 .. Len(df) : df[i].category = category }
        days == SortedDays({ DateOf(df[i].time_at) : i \in df_category })
    IN  [ n \in 1 .. Len(days) |->
            [ds |-> days[n],
             y |-> LET idx == { i \in 1 .. Len(df) : DateOf(df[i].time_at) = days[n] }
                   IN  SumRows(df, idx)] ]

\* df_category.groupby(df_category["time_at"].dt.date)["total_price"].sum()
\* .reset_index(): one (ds, y) per date, dates ascending
DailySeries(df, category) ==
    LET df_category == { i \in 1 .. Len(df) : df[i].category = category }
        days == SortedDays({ DateOf(df[i].time_at) : i \in df_category })
    IN  [ n \in 1 .. Len(days) |->
            [ds |-> days[n],
             y |-> LET idx == { i \in df_category : DateOf(df[i].time_at) = days[n] }
                   IN  SumRows(df, idx)] ]

----------------------------------------------------------------------------
(* Sales Forecasting page: app.py *)

IdleForecast ==
    [pc |-> "idle", raw |-> <<>>, df |-> <<>>, categories |-> <<>>, idx |-> 0,
     reports |-> <<>>, error |-> "none", msgs |-> {}]

\* lines 309-344: fetch_order_data, the empty check, the cleaning inside the
\* try, up to the list of categories
SalesForecastingPage(fault) ==
    /\ forecast.pc = "start"
    /\ openConns' = ConnsAfter(fault)
    /\ UNCHANGED <<menu, nextId, last>>
    /\ forecast' =
         IF fault # "none"
         THEN [forecast EXCEPT !.pc = "uncaught", !.error = "fetch_order_data"]
         ELSE IF forecast.raw = <<>>
         THEN [forecast EXCEPT !.pc = "done", !.msgs = {"No order data found."}]
         ELSE IF ToDatetimeRaises(DropNaTimeTotal(forecast.raw))
         THEN [forecast EXCEPT !.pc = "failed", !.error = "to_datetime",
                               !.msgs = {"Failed to generate sales forecast."}]
         ELSE LET df == Clean(forecast.raw)
              IN  [forecast EXCEPT !.pc = IF Categories(df) = <<>> THEN "done" ELSE "loop",
                                   !.df = df,
                                   !.categories = Categories(df),
                                   !.idx = 1]

\* a guard that lets a series of one date through to the forecaster
NotEnoughDataEmptyOnly(df_grouped) == Len(df_grouped) < 1

\* line 358: "if len(df_grouped) < 2"
NotEnoughData(df_grouped) == Len(df_grouped) < 2

\* lines 346-415: one iteration of "for category in categories"; fit is what
\* Prophet does with a series of two or more dates.  An exception leaves the
\* loop for the except clause of line 416.
ForecastCategory(fit) ==
    /\ forecast.pc = "loop"
    /\ UNCHANGED <<menu, nextId, openConns, last>>
    /\ LET category == forecast.categories[forecast.idx]
           df_grouped == DailySeries(forecast.df, category)
           report(result) == [category |-> category, series |-> df_grouped,
                              result |-> result]
           continue(result) ==
               [forecast EXCEPT
                  !.reports = Append(@, report(result)),
                  !.idx = @ + 1,
                  !.pc = IF forecast.idx = Len(forecast.categories)
                         THEN "done" ELSE "loop"]
       IN  forecast' =
             IF NotEnoughData(df_grouped) THEN continue("insufficient")
             ELSE IF fit = "raise"
             THEN [forecast EXCEPT !.pc = "failed", !.error = "fit",
                                   !.msgs = @ \cup {"Failed to generate sales forecast."}]
             ELSE continue("forecast")

----------------------------------------------------------------------------
(* Dashboard page: app.py *)

Juice == <<"J", "u", "i", "c", "e">>
Drinks == <<"D", "r", "i", "n", "k", "s">>

\* a menu the rows of RowPool join with, and one item nobody ordered
DashMenu ==
    { [id |-> 1, item_name |-> Shawarma, category |-> Wraps, item_price |-> 20],
      [id |-> 2, item_name |-> Fries, category |-> Sides, item_price |-> 10],
      [id |-> 3, item_name |-> Juice, category |-> Drinks, item_price |-> 5] }

\* order rows read from typed columns, every cell a timestamp or a number,
\* that the query joins with a row of DashMenu
TypedPool ==
    { r \in RowPool : /\ r.time_at.k = "ts" /\ r.total_price.k = "num"
                      /\ r.item_price.k = "num" /\ r.quantity.k = "num"
                      /\ r.category \in listCategories(DashMenu) }

OrderFrames == UNION { [1 .. n -> TypedPool] : n \in 0 .. MaxOrders }

\* (from_date, to_date) of the two st.date_input widgets, as day numbers
DateRanges == { <<1, 365>>, <<2, 5>> }

SearchTerms == { <<>>, <<"f", "R">> }

RECURSIVE lowered(_)
lowered(s) == IF s = <<>> THEN <<>> ELSE <<lower(Head(s))>> \o lowered(Tail(s))

\* Series.str.contains(term, case=False) for a term of letters
Contains(s, term) ==
    \E i \in 0 .. Len(s) - Len(term) :
        SubSeq(lowered(s), i + 1, i + Len(term)) = lowered(term)

\* lines 100-103: rows whose date lies in [from_date, to_date]
FilterByDate(df, from_date, to_date) ==
    LET Keep(r) == /\ DateOf(r.time_at) >= from_date
                   /\ DateOf(r.time_at) <= to_date
    IN  SelectSeq(df, Keep)

\* the item filter with its guard removed: the rows come back as they are
FilterByItemOff(df, item_filter, item_options) == df

\* lines 106-107: "if item_filter and len(item_filter) < len(item_options)"
FilterByItem(df, item_filter, item_options) ==
    IF item_filter # {} /\ Cardinality(item_filter) < Cardinality(item_options)
    THEN LET Keep(r) == r.item_name \in item_filter
         IN  SelectSeq(df, Keep)
    ELSE df

\* lines 110-111: the same for the categories
FilterByCategory(df, category_filter, category_options) ==
    IF category_filter # {}
       /\ Cardinality(category_filter) < Cardinality(category_options)
    THEN LET Keep(r) == r.category \in category_filter
         IN  SelectSeq(df, Keep)
    ELSE df

\* lines 114-117
FilterBySearch(df, search_term) ==
    IF search_term # <<>>
    THEN LET Keep(r) == Contains(r.item_name, search_term)
         IN  SelectSeq(df, Keep)
    ELSE df

\* at most one database call of a run fails: <<the call, how it fails>>
DashFaults ==
    { <<"none", "none">> } \cup
    ({ "fetch_menu", "fetch_order_data" } \X (Faults \ { "none" }))

\* Series.sum() of a numeric column over the rows at the indices idx
RECURSIVE SumColumn(_, _, _)
SumColumn(df, idx, column) ==
    IF idx = {} THEN 0
    ELSE LET i == CHOOSE x \in idx : TRUE
         IN  df[i][column].v + SumColumn(df, idx \ {i}, column)

\* lines 142-146: df.groupby("category").agg(total_sales, total_quantity),
\* one row per category of df; the order sort_values gives the rows and the
\* avg_price column are display only and left out
CategorySummary(df) ==
    { [category |-> c,
       total_sales |-> SumColumn(df, { i \in 1 .. Len(df) : df[i].category = c },
                                 "total_price"),
       total_quantity |-> SumColumn(df, { i \in 1 .. Len(df) : df[i].category = c },
                                    "quantity")] :
      c \in { df[i].category : i \in 1 .. Len(df) } }

IdleDashboard ==
    [pc |-> "idle", df_orders |-> <<>>, range |-> <<0, 0>>,
     category_options |-> {}, item_options |-> {},
     category_filter |-> {}, item_filter |-> {}, search_term |-> <<>>,
     df_date |-> <<>>, df_item |-> <<>>, df_category |-> <<>>,
     df_filtered |-> <<>>, total_sales |-> 0, total_orders |-> 0,
     total_items |-> 0, category_summary |-> {}, msgs |-> {}]

\* lines 60-146: one run of the page with the widgets set as given, up to
\* the key metrics and the category summary; call names the database call
\* that fails, if one does
Dashboard(range, category_filter, item_filter, search_term, call, kind) ==
    LET category_options == listCategories(menu)
        item_options == { r.item_name : r \in menu }
        df_date == FilterByDate(dashboard.df_orders, range[1], range[2])
        df_item == FilterByItem(df_date, item_filter, item_options)
        df_category == FilterByCategory(df_item, category_filter, category_options)
        df_filtered == FilterBySearch(df_category, search_term)
        widgets == [dashboard EXCEPT !.range = range,
                                     !.category_options = category_options,
                                     !.item_options = item_options,
                                     !.category_filter = category_filter,
                                     !.item_filter = item_filter,
                                     !.search_term = search_term]
    IN  /\ dashboard.pc = "start"
        /\ category_filter \subseteq category_options
        /\ item_filter \subseteq item_options
        /\ UNCHANGED <<menu, nextId, last>>
        /\ openConns' = IF call = "none" THEN 0 ELSE ConnsAfter(kind)
        /\ dashboard' =
             IF call = "fetch_menu"
             THEN [dashboard EXCEPT !.pc = "uncaught"]
             ELSE IF call = "fetch_order_data"
             THEN [widgets EXCEPT !.pc = "uncaught"]
             ELSE IF dashboard.df_orders = <<>>
             THEN [widgets EXCEPT !.pc = "stopped",
                                  !.msgs = {"No orders found in database."}]
             ELSE IF df_filtered = <<>>
             THEN [widgets EXCEPT !.pc = "stopped",
                                  !.df_date = df_date, !.df_item = df_item,
                                  !.df_category = df_category,
                                  !.msgs = {"No data after applying all filters."}]
             ELSE [widgets EXCEPT !.pc = "shown",
                                  !.df_date = df_date, !.df_item = df_item,
                                  !.df_category = df_category,
                                  !.df_filtered = df_filtered,
                                  !.total_sales =
                                     SumColumn(df_filtered, DOMAIN df_filtered,
                                               "total_price"),
                                  !.total_orders =
                                     Cardinality({ df_filtered[i].order_id :
                                                   i \in DOMAIN df_filtered }),
                                  !.total_items =
                                     SumColumn(df_filtered, DOMAIN df_filtered,
                                               "quantity"),
                                  !.category_summary = CategorySummary(df_filtered)]

----------------------------------------------------------------------------
(* Specification of the menu table and its operations *)

NoOutcome == Outcome("none", "ok", 0, <<>>, <<>>, 0, {}, "none")

InitMenu ==
    /\ menu = {}
    /\ nextId = 1
    /\ openConns = 0
    /\ last = NoOutcome

Init ==
    /\ InitMenu
    /\ forecast = IdleForecast
    /\ dashboard = IdleDashboard

Next ==
    \/ \E i \in MenuInputs, f \in Faults :
          add_menu_item(i.n, i.c, i.p, f) /\ UNCHANGED otherVars
    \/ \E id \in Ids, i \in MenuInputs, f \in Faults :
          update_menu_item(id, i.n, i.c, i.p, f) /\ UNCHANGED otherVars
    \/ \E id \in Ids, f \in Faults :
          delete_menu_item(id, f) /\ UNCHANGED otherVars
    \/ \E f \in Faults : get_all_menu_items(f) /\ UNCHANGED otherVars
    \/ \E f \in Faults : fetch_menu(f) /\ UNCHANGED otherVars
    \/ \E f \in Faults : fetch_categories(f) /\ UNCHANGED otherVars
    \/ \E f \in Faults : fetch_order_data(f) /\ UNCHANGED otherVars
    \/ \E id \in Ids, pl \in FaultPlans :
          delete_button(id, pl) /\ UNCHANGED otherVars
    \/ \E id \in Ids, i \in MenuInputs, pl \in FaultPlans :
          edit_form(id, i, pl) /\ UNCHANGED otherVars
    \/ \E i \in MenuInputs, pl \in FaultPlans :
          add_form(i, pl) /\ UNCHANGED otherVars


Spec == Init /\ [][Next]_vars

----------------------------------------------------------------------------
(* Claims about the menu table *)

IsText(s) == s # NoneVal

\* a valid (name, category, price) in the sense of the menu contract
ValidInput(o) ==
    /\ IsText(o.item_name) /\ strip(o.item_name) # <<>>
    /\ IsText(o.category) /\ strip(o.category) # <<>>
    /\ o.price >= 0

\* the table gained exactly one row, with a fresh id, holding the
\* stripped name and category and the price of outcome o, and listMenu shows
\* it after the rows it showed before
AddedOne(o) ==
    \E r \in menu' :
        /\ r \notin menu
        /\ r.id \notin RowIds(menu)
        /\ menu' = menu \cup {r}
        /\ r.item_name = strip(o.item_name)
        /\ r.category = strip(o.category)
        /\ r.item_price = o.price
        /\ listMenu(menu') = Append(listMenu(menu), r)

\* C2: a call of add_menu_item whose name or category is empty after
\* trimming, or whose price is negative, raises ValueError, leaves the menu
\* table and the id sequence as they were and opens no connection.
C2_AddRejectsInvalid ==
    [][ ( /\ last'.op = "add_menu_item"
          /\ IsText(last'.category)
          /\ \/ strip(last'.item_name) = <<>>
             \/ strip(last'.category) = <<>>
             \/ last'.price < 0 )
        => ( /\ last'.status = "ValueError"
             /\ menu' = menu
             /\ nextId' = nextId
             /\ openConns' = 0 ) ]_vars

\* C2 witness: over a non-empty menu, add_menu_item was called with a
\* negative price and an otherwise valid name and category, and raised.
C2_Witness ==
    /\ last.op = "add_menu_item"
    /\ last.price < 0
    /\ strip(last.item_name) # <<>>
    /\ strip(last.category) # <<>>
    /\ last.status = "ValueError"
    /\ menu # {}

C4_RowsValid ==
    \A r \in menu :
        /\ r.item_name # <<>> /\ strip(r.item_name) = r.item_name
        /\ r.category # <<>> /\ strip(r.category) = r.category
        /\ r.item_price >= 0

\* the table after an update of id with the values of outcome o: that row
\* replaced, every other row as it was
Replaced(o) ==
    { r \in menu : r.id # o.id } \cup
    { [id |-> o.id, item_name |-> o.item_name, category |-> o.category,
       item_price |-> o.price] : r \in { x \in menu : x.id = o.id } }

\* C5 as stated: an update of an id that is absent surfaces an error to the
\* caller (update_menu_item raises, the edit_form does not report success)
\* and leaves the menu unchanged; an update of a present id replaces that
\* row only.
C5_Original ==
    [][ ( /\ last'.op \in {"update_menu_item", "edit_form"}
          /\ last'.fault = "none" )
        => ( /\ menu' = Replaced(last')
             /\ last'.id \notin RowIds(menu)
                => ( /\ menu' = menu
                     /\ last'.status # "ok"
                        \/ "Failed to update item." \in last'.msgs ) ) ]_vars

\* C5 amended: an update that met no database fault replaces name, category
\* and price of the row with that id by the values given, as given, and
\* leaves every other row unchanged; when no row has that id the menu is
\* unchanged and the call completes without an error (update_menu_item
\* returns, the edit_form reports "Item updated successfully.").
C5_Amended ==
    [][ /\ ( /\ last'.op \in {"update_menu_item", "edit_form"}
             /\ last'.fault = "none" )
           => ( /\ menu' = Replaced(last')
                /\ RowIds(menu') = RowIds(menu)
                /\ last'.id \notin RowIds(menu) => menu' = menu
                /\ last'.status = "ok" )
        /\ ( last'.op = "edit_form" /\ last'.fault = "none" )
           => last'.msgs = {"Item updated successfully."}
        /\ ( last'.op = "update_menu_item" /\ last'.fault # "none" )
           => ( menu' = menu /\ last'.status = "PsycopgError" ) ]_vars

\* C5 witness: over a table of two rows, update_menu_item ran without a
\* fault and one row holds the values given while the other differs.
C5_Witness ==
    /\ last.op = "update_menu_item"
    /\ last.status = "ok"
    /\ Cardinality(menu) = 2
    /\ \E r \in menu : /\ r.id = last.id
                       /\ r.item_name = last.item_name
                       /\ r.category = last.category
                       /\ r.item_price = last.price
    /\ \E r \in menu : r.id # last.id /\ r.item_name # last.item_name

\* C6: delete_menu_item(id) that met no database fault completes without an
\* error and removes the row with that id and no other row; when no row has
\* that id, listMenu returns the same rows in the same order as before.
C6_DeleteExact ==
    [][ ( last'.op = "delete_menu_item" /\ last'.fault = "none" )
        => ( /\ last'.status = "ok"
             /\ menu' = { r \in menu : r.id # last'.id }
             /\ menu \ menu' \subseteq { r \in menu : r.id = last'.id }
             /\ last'.id \notin RowIds(menu)
                => listMenu(menu') = listMenu(menu) ) ]_vars

\* C6 witness: delete_menu_item ran without a fault on an id that is not in
\* the table, which still holds a row.
C6_Witness ==
    /\ last.op = "delete_menu_item"
    /\ last.status = "ok"
    /\ last.id \notin RowIds(menu)
    /\ menu # {}

\* C8: no Row Source operation leaves a connection open when it returns or
\* raises.
C8_NoOpenConnection ==
    last.op \in {"fetch_menu", "get_all_menu_items", "fetch_categories",
                 "fetch_order_data", "add_menu_item", "update_menu_item",
                 "delete_menu_item"}
    => openConns = 0

\* C12: every data-access failure of a Row Source call made from a view is
\* caught in that view and turned into a message: no run of the Manage Menu
\* page, the Dashboard or the Sales Forecasting page ends in an exception
\* that left the view.
C12_NoUncaughtFailure ==
    /\ last.status # "uncaught"
    /\ dashboard.pc # "uncaught"
    /\ forecast.pc # "uncaught"

----------------------------------------------------------------------------
(* Specification of a run of the Sales Forecasting page over the orders the
   store holds *)

InitForecast ==
    /\ InitMenu
    /\ \E raw \in RawFrames :
          forecast = [IdleForecast EXCEPT !.pc = "start", !.raw = raw]
    /\ dashboard = IdleDashboard

NextForecast ==
    \/ \E f \in Faults : SalesForecastingPage(f) /\ UNCHANGED dashboard
    \/ \E fit \in {"ok", "raise"} : ForecastCategory(fit) /\ UNCHANGED dashboard

SpecForecast == InitForecast /\ [][NextForecast]_vars

----------------------------------------------------------------------------
(* Claims about the Sales Forecasting page *)

\* C1: when fitting fails for one category, every category later in the
\* iteration that has two or more distinct dates still gets its forecast.
C1_Isolation ==
    forecast.error = "fit"
    => \A i \in forecast.idx + 1 .. Len(forecast.categories) :
          Len(DailySeries(forecast.df, forecast.categories[i])) >= 2
          => \E k \in 1 .. Len(forecast.reports) :
                /\ forecast.reports[k].category = forecast.categories[i]
                /\ forecast.reports[k].result = "forecast"

\* C9: a row that fails coercion is dropped and the others go on: the
\* request never fails over a coercion, and no cleaned row stems from a row
\* that failed it.
C9_CoercionNeverFatal ==
    /\ forecast.error # "to_datetime"
    /\ forecast.pc \in {"loop", "done"}
       => \A r \in Rows(forecast.df) :
             /\ r.time_at.k = "ts" /\ r.total_price.k = "num"
             /\ r.item_price.k = "num" /\ r.quantity.k = "num"

ScenarioRaw ==
    << OrderRow(1, Ts(1), Shawarma, Wraps, Num(20), Num(1), Num(20)),
       OrderRow(1, Ts(1), Shawarma, Wraps, Num(20), Num(1), Num(20)),
       OrderRow(2, Ts(2), Fries, Sides, Num(10), Num(1), Num(10)) >>

\* C10: cleaning the scenario's three raw orders leaves exactly 2 rows, with
\* the series Wraps = [(2025-01-01, 20)] and Sides = [(2025-01-02, 10)].
C10_Scenario ==
    ( forecast.raw = ScenarioRaw /\ forecast.pc \in {"loop", "done"} )
    => /\ Len(forecast.df) = 2
       /\ DailySeries(forecast.df, Wraps) = << [ds |-> 1, y |-> 20] >>
       /\ DailySeries(forecast.df, Sides) = << [ds |-> 2, y |-> 10] >>

\* the total_price of the rows of df of that category on that date, summed
\* row by row
RECURSIVE TotalOn(_, _, _)
TotalOn(df, category, date) ==
    IF df = <<>> THEN 0
    ELSE (IF Head(df).category = category /\ DateOf(Head(df).time_at) = date
          THEN Head(df).total_price.v ELSE 0)
         + TotalOn(Tail(df), category, date)

\* C11: every series the forecasting loop produces has strictly increasing
\* dates, each date carries a cleaned row of the category, and each value
\* is the sum of total_price over the cleaned rows of the category on that
\* calendar date.
C11_DateGrouping ==
    \A k \in 1 .. Len(forecast.reports) :
        LET s == forecast.reports[k].series
            c == forecast.reports[k].category
        IN  /\ \A n \in 1 .. Len(s) - 1 : s[n].ds < s[n + 1].ds
            /\ \A n \in 1 .. Len(s) :
                  /\ \E r \in Rows(forecast.df) :
                        r.category = c /\ DateOf(r.time_at) = s[n].ds
                  /\ s[n].y = TotalOn(forecast.df, c, s[n].ds)

\* C11 witness: a produced series of two dates, one of which sums two rows
\* of different hours of the same day, while another category has rows too.
C11_Witness ==
    \E k \in 1 .. Len(forecast.reports) :
        LET s == forecast.reports[k].series
            c == forecast.reports[k].category
        IN  /\ Len(s) >= 2
            /\ \E n \in 1 .. Len(s) :
                  \E r1, r2 \in Rows(forecast.df) :
                     /\ r1.category = c /\ r2.category = c
                     /\ DateOf(r1.time_at) = s[n].ds
                     /\ DateOf(r2.time_at) = s[n].ds
                     /\ r1.time_at # r2.time_at
            /\ \E r \in Rows(forecast.df) : r.category # c

----------------------------------------------------------------------------
(* Specification of a run of the Dashboard page *)

InitDashboard ==
    /\ menu = DashMenu
    /\ nextId = 4
    /\ openConns = 0
    /\ last = NoOutcome
    /\ forecast = IdleForecast
    /\ \E df \in OrderFrames :
          dashboard = [IdleDashboard EXCEPT !.pc = "start", !.df_orders = df]

NextDashboard ==
    \E range \in DateRanges, cf \in SUBSET listCategories(DashMenu),
       itf \in SUBSET { r.item_name : r \in DashMenu }, st \in SearchTerms,
       p \in DashFaults :
       Dashboard(range, cf, itf, st, p[1], p[2]) /\ UNCHANGED forecast

SpecDashboard == InitDashboard /\ [][NextDashboard]_vars

----------------------------------------------------------------------------
(* Claims about the Dashboard page *)

Filtered == dashboard.pc \in {"shown", "stopped"} /\ dashboard.df_orders # <<>>

\* the narrowing law for one filter: sel is the selection, opts the options,
\* in and out the rows before and after, Field the column filtered on
Narrows(sel, in, out, Field(_)) ==
    /\ Rows(out) \subseteq Rows(in)
    /\ \A r \in Rows(out) : Field(r) \in sel

ItemOf(r) == r.item_name
CategoryOf(r) == r.category

\* C7 as stated: a selection equal to the option set leaves the rows
\* unchanged, and every strict subset, the empty one included, narrows: the
\* output rows are among the input rows and their field is in the selection.
C7_Original ==
    Filtered =>
      /\ dashboard.item_filter = dashboard.item_options
         => dashboard.df_item = dashboard.df_date
      /\ dashboard.category_filter = dashboard.category_options
         => dashboard.df_category = dashboard.df_item
      /\ dashboard.item_filter # dashboard.item_options
         => Narrows(dashboard.item_filter, dashboard.df_date,
                    dashboard.df_item, ItemOf)
      /\ dashboard.category_filter # dashboard.category_options
         => Narrows(dashboard.category_filter, dashboard.df_item,
                    dashboard.df_category, CategoryOf)

\* C7 amended: a selection equal to the option set leaves the rows
\* unchanged; every non-empty strict subset narrows; the empty selection
\* filters nothing and leaves the rows unchanged.
C7_Amended ==
    Filtered =>
      /\ dashboard.item_filter \in {dashboard.item_options, {}}
         => dashboard.df_item = dashboard.df_date
      /\ dashboard.category_filter \in {dashboard.category_options, {}}
         => dashboard.df_category = dashboard.df_item
      /\ dashboard.item_filter \notin {dashboard.item_options, {}}
         => Narrows(dashboard.item_filter, dashboard.df_date,
                    dashboard.df_item, ItemOf)
      /\ dashboard.category_filter \notin {dashboard.category_options, {}}
         => Narrows(dashboard.category_filter, dashboard.df_item,
                    dashboard.df_category, CategoryOf)

\* C7 witness: the page is shown for a non-empty strict subset of the items
\* that removed a row of the date-filtered rows and kept another.
C7_Witness ==
    /\ dashboard.pc = "shown"
    /\ dashboard.item_filter \notin {dashboard.item_options, {}}
    /\ dashboard.df_item # dashboard.df_date
    /\ dashboard.df_item # <<>>

----------------------------------------------------------------------------
(* Specification of the Sales Forecasting page and the Dashboard run over the
   same orders *)

SharedFrames == UNION { [1 .. n -> TypedPool] : n \in 0 .. MaxShared }

InitShared ==
    /\ menu = DashMenu
    /\ nextId = 4
    /\ openConns = 0
    /\ last = NoOutcome
    /\ \E df \in SharedFrames :
          /\ forecast = [IdleForecast EXCEPT !.pc = "start", !.raw = df]
          /\ dashboard = [IdleDashboard EXCEPT !.pc = "start", !.df_orders = df]

NextShared ==
    \/ \E f \in Faults : SalesForecastingPage(f) /\ UNCHANGED dashboard
    \/ \E fit \in {"ok", "raise"} : ForecastCategory(fit) /\ UNCHANGED dashboard
    \/ \E range \in DateRanges, st \in SearchTerms,
          cf \in { listCategories(DashMenu), {Wraps} } :
          /\ Dashboard(range, cf, { r.item_name : r \in DashMenu }, st,
                       "none", "none")
          /\ UNCHANGED forecast

SpecShared == InitShared /\ [][NextShared]_vars

----------------------------------------------------------------------------
(* Claims about the two pages together *)

\* the distinct calendar dates of the rows of df of that category
DistinctDates(df, category) ==
    { DateOf(r.time_at) : r \in { x \in Rows(df) : x.category = category } }

\* the total_price of the rows of df of that category, summed row by row
RECURSIVE TotalOf(_, _)
TotalOf(df, category) ==
    IF df = <<>> THEN 0
    ELSE (IF Head(df).category = category THEN Head(df).total_price.v ELSE 0)
         + TotalOf(Tail(df), category)

RECURSIVE TotalPrice(_)
TotalPrice(df) ==
    IF df = <<>> THEN 0 ELSE Head(df).total_price.v + TotalPrice(Tail(df))

\* every widget of the Dashboard at its default: the year 2025, every
\* category, every item, no search term
DashboardDefaults ==
    /\ dashboard.range = <<1, 365>>
    /\ dashboard.category_filter = dashboard.category_options
    /\ dashboard.item_filter = dashboard.item_options
    /\ dashboard.search_term = <<>>

\* C13: the forecaster runs only on series of two or more distinct dates; a
\* category with fewer is reported as insufficient and the loop goes on to
\* the next category; and on the Dashboard with its widgets at their
\* defaults the rows of such a category are among the rows shown, in the
\* total sales and in the row of their category in the category summary.
C13_SkipPolicy ==
    /\ forecast.error = "fit"
       => Cardinality(DistinctDates(forecast.df,
                                    forecast.categories[forecast.idx])) >= 2
    /\ \A k \in 1 .. Len(forecast.reports) :
          LET c == forecast.reports[k].category
              few == Cardinality(DistinctDates(forecast.df, c)) < 2
          IN  /\ c = forecast.categories[k]
              /\ forecast.reports[k].result = IF few THEN "insufficient" ELSE "forecast"
    /\ (forecast.pc \in {"loop", "done"} /\ forecast.idx >= 1)
       => /\ Len(forecast.reports) = forecast.idx - 1
          /\ forecast.pc = "done" => forecast.idx = Len(forecast.categories) + 1
    /\ (dashboard.pc = "shown" /\ DashboardDefaults)
       => \A k \in 1 .. Len(forecast.reports) :
             forecast.reports[k].result = "insufficient"
             => \A x \in Rows(forecast.df) :
                   x.category = forecast.reports[k].category
                   => \E i \in DOMAIN dashboard.df_filtered :
                        LET r == dashboard.df_filtered[i]
                        IN  /\ r.order_id = x.order_id
                            /\ dashboard.total_sales = TotalPrice(dashboard.df_filtered)
                            /\ \E e \in dashboard.category_summary :
                                 /\ e.category = r.category
                                 /\ e.total_sales = TotalOf(dashboard.df_filtered,
                                                            r.category)

\* C13 witness: the loop skipped one category and went on to forecast the
\* next, and the Dashboard with its widgets at their defaults shows a
\* category summary of both categories.
C13_Witness ==
    /\ forecast.pc = "done"
    /\ Len(forecast.reports) = 2
    /\ forecast.reports[1].result = "insufficient"
    /\ forecast.reports[2].result = "forecast"
    /\ dashboard.pc = "shown"
    /\ DashboardDefaults
    /\ Cardinality(dashboard.category_summary) = 2

====
